---- MODULE Spec2Model ----
(***************************************************************************)
(* A model of the camera module of ACME (src/render/camera.py):           *)
(* CameraExtrinsic, CameraIntrinsic and Camera objects on a heap, their    *)
(* device cascade, and the view / projection / project / unproject         *)
(* arithmetic.                                                             *)
(*                                                                         *)
(* Numbers are exact rationals <<n, d>> (d > 0, lowest terms); <<0, 0>>    *)
(* stands for a non-finite float (inf or nan), which every operation       *)
(* propagates.  A tensor is a record [v |-> data, dev |-> device]: torch   *)
(* refuses to combine tensors placed on different devices.                 *)
(***************************************************************************)
EXTENDS Integers, Sequences, FiniteSets, TLC

(***************************************************************************)
(* Bounds of the model.                                                    *)
(***************************************************************************)
\* operations in one run of the object specification
MaxSteps == 3
\* CameraExtrinsic / CameraIntrinsic objects built by the caller (besides the
\* two default-argument objects built when the module is imported)
MaxObjects == 1
\* Camera objects
MaxCameras == 2

(***************************************************************************)
(* Exact rational arithmetic standing for torch / Python float arithmetic. *)
(***************************************************************************)
Abs(n) == IF n < 0 THEN -n ELSE n

RECURSIVE Gcd(_, _)
Gcd(a, b) == IF b = 0 THEN a ELSE Gcd(b, a % b)

NaN == <<0, 0>>

IsFinite(a) == a[2] # 0

\* the rational n/d in lowest terms with a positive denominator
FracBy(n, d, g) == IF d < 0 THEN <<(-n) \div g, (-d) \div g>> ELSE <<n \div g, d \div g>>

Frac(n, d) == IF d = 0 THEN NaN ELSE FracBy(n, d, Gcd(Abs(n), Abs(d)))

Num(n) == <<n, 1>>

\* over the least common denominator, so that the intermediate products stay small
RAddBy(a, b, g) == Frac(a[1] * (b[2] \div g) + b[1] * (a[2] \div g), (a[2] \div g) * b[2])

RAdd(a, b) == IF IsFinite(a) /\ IsFinite(b) THEN RAddBy(a, b, Gcd(a[2], b[2])) ELSE NaN

RNeg(a) == IF IsFinite(a) THEN <<-a[1], a[2]>> ELSE NaN

RSub(a, b) == RAdd(a, RNeg(b))

\* cross-reduced, so that the intermediate products stay small
RMulBy(a, b, g1, g2) ==
    Frac((a[1] \div g1) * (b[1] \div g2), (a[2] \div g2) * (b[2] \div g1))

RMul(a, b) ==
    IF IsFinite(a) /\ IsFinite(b)
    THEN RMulBy(a, b, Gcd(Abs(a[1]), b[2]), Gcd(Abs(b[1]), a[2]))
    ELSE NaN

\* tensor division: a zero divisor gives a non-finite value, not an exception
RDiv(a, b) == IF IsFinite(a) /\ IsFinite(b) /\ b[1] # 0
              THEN RMul(a, Frac(b[2], b[1])) ELSE NaN

RLeq(a, b) == a[1] * b[2] <= b[1] * a[2]

\* the square root of a non-negative integer that is a perfect square
ISqrt(n) == CHOOSE r \in 0..n : r * r = n

\* the square root of a rational that is the square of a rational
RSqrt(a) == IF IsFinite(a) THEN <<ISqrt(a[1]), ISqrt(a[2])>> ELSE NaN

(***************************************************************************)
(* Vectors (tuples of rationals) and matrices (tuples of rows).            *)
(***************************************************************************)
\* a sequence given element by element, as a tuple of its values
Tup(f) == f \o <<>>

Vec(t) == Tup([i \in 1..Len(t) |-> Num(t[i])])

RECURSIVE RSum(_)
RSum(s) == IF Len(s) = 0 THEN Num(0) ELSE RAdd(Head(s), RSum(Tail(s)))

dot(a, b) == RSum(Tup([i \in 1..Len(a) |-> RMul(a[i], b[i])]))

VSub(a, b) == Tup([i \in 1..Len(a) |-> RSub(a[i], b[i])])

cross(a, b) ==
    << RSub(RMul(a[2], b[3]), RMul(a[3], b[2])),
       RSub(RMul(a[3], b[1]), RMul(a[1], b[3])),
       RSub(RMul(a[1], b[2]), RMul(a[2], b[1])) >>

\* row normalisation: each row divided by its euclidean norm
VDiv(a, n) == Tup([i \in 1..Len(a) |-> RDiv(a[i], n)])

normr(a) == VDiv(a, RSqrt(dot(a, a)))

matmul(A, B) ==
    Tup([i \in 1..Len(A) |-> Tup([j \in 1..Len(B[1]) |->
        RSum(Tup([k \in 1..Len(B) |-> RMul(A[i][k], B[k][j])]))])])

transpose(A) == Tup([j \in 1..Len(A[1]) |-> Tup([i \in 1..Len(A) |-> A[i][j]])])

\* the 3x3 matrix left of a 4x4 one by deleting row r and column c
Skip(k, r) == IF k < r THEN k ELSE k + 1

Minor(M, r, c) == Tup([i \in 1..3 |-> Tup([j \in 1..3 |-> M[Skip(i, r)][Skip(j, c)]])])

Det3(A) ==
    RAdd(RSub(RMul(A[1][1], RSub(RMul(A[2][2], A[3][3]), RMul(A[2][3], A[3][2]))),
              RMul(A[1][2], RSub(RMul(A[2][1], A[3][3]), RMul(A[2][3], A[3][1])))),
         RMul(A[1][3], RSub(RMul(A[2][1], A[3][2]), RMul(A[2][2], A[3][1]))))

Sign(k) == IF k % 2 = 0 THEN Num(1) ELSE Num(-1)

Det4(M) ==
    RSum(Tup([j \in 1..4 |-> RMul(RMul(Sign(1 + j), M[1][j]), Det3(Minor(M, 1, j)))]))

\* torch.inverse of an invertible 4x4 matrix (adjugate over determinant)
Adjugate(M) ==
    Tup([i \in 1..4 |-> Tup([j \in 1..4 |-> RMul(Sign(i + j), Det3(Minor(M, j, i)))])])

MDiv(A, d) == Tup([i \in 1..Len(A) |-> VDiv(A[i], d)])

inverse(M) == MDiv(Adjugate(M), Det4(M))

(***************************************************************************)
(* Tensors, devices and call results.                                      *)
(***************************************************************************)
Devices == {"cuda:0", "cpu"}

\* the device every constructor takes by default
DefaultDevice == "cuda:0"

NoTensor == [v |-> <<>>, dev |-> ""]

\* torch.tensor(data, dtype=torch.float, device=device) of a tuple of numbers
tensor(data, device) == [v |-> Vec(data), dev |-> device]

\* Tensor.to(**kwargs): the same values, placed on kwargs.device when given
\* (dtype=torch.float leaves a float tensor as it is)
tensor_to(t, kwargs) ==
    IF "device" \in DOMAIN kwargs THEN [t EXCEPT !.dev = kwargs.device] ELSE t

\* a call that returned val / a call that raised the exception e
Ok(val) == [err |-> "", val |-> val]
Raise(e) == [err |-> e, val |-> NoTensor]

\* a Python number returned by a call (it lives on no device)
PyFloat(a) == [v |-> a, dev |-> "python"]

DeviceError   == "RuntimeError: tensors on different devices"
SingularError == "RuntimeError: singular matrix"

(***************************************************************************)
(* CameraExtrinsic                                                         *)
(***************************************************************************)
\* the three vectors re-placed on the object's device
\*   self.position = self.position.to(self.device), and so on
Replaced(self) ==
    [self EXCEPT !.position  = tensor_to(self.position,  [device |-> self.device]),
                 !.target    = tensor_to(self.target,    [device |-> self.device]),
                 !.up_vector = tensor_to(self.up_vector, [device |-> self.device])]

\* a variant that only stores the attribute, without re-placing the vectors
CameraExtrinsic_setattr_lazy(self, key, value) == [self EXCEPT ![key] = value]

\* the attribute is stored, and storing `device` re-places the three vectors
CameraExtrinsic_setattr(self, key, value) ==
    IF key = "device" THEN Replaced([self EXCEPT ![key] = value])
    ELSE [self EXCEPT ![key] = value]

CameraExtrinsic_init(position, target, up_vector, device) ==
    CameraExtrinsic_setattr(
        CameraExtrinsic_setattr(
            CameraExtrinsic_setattr(
                CameraExtrinsic_setattr(
                    [position |-> NoTensor, target |-> NoTensor,
                     up_vector |-> NoTensor, device |-> ""],
                    "position", tensor(position, device)),
                "target", tensor(target, device)),
            "up_vector", tensor(up_vector, device)),
        "device", device)

\* a variant of look_at that also resets the up vector
look_at_resetting(self, target) ==
    [self EXCEPT !.target = target, !.up_vector = tensor(<<0, 1, 0>>, self.device)]

look_at(self, target) == CameraExtrinsic_setattr(self, "target", target)

look_from(self, position) == CameraExtrinsic_setattr(self, "position", position)

direction(self) ==
    IF self.target.dev # self.position.dev THEN Raise(DeviceError)
    ELSE Ok([v |-> VSub(self.target.v, self.position.v), dev |-> self.target.dev])

\* torch.cat((torch.cat((x.t(), y.t(), z.t(), -p.t()), dim=1), [[0, 0, 0, 1]]), dim=0)
ViewOf(x, y, z, p) ==
    << <<x[1], y[1], z[1], RNeg(p[1])>>,
       <<x[2], y[2], z[2], RNeg(p[2])>>,
       <<x[3], y[3], z[3], RNeg(p[3])>>,
       Vec(<<0, 0, 0, 1>>) >>

\* a variant of the basis in which y repeats x
ViewXZ_flat(x, z, p) == ViewOf(x, x, z, p)

\* y = cross(z, x)
ViewXZ(x, z, p) == ViewOf(x, cross(z, x), z, p)

\* x = normr(cross(up_vector, z))
ViewZ(up, z, p) == ViewXZ(normr(cross(up, z)), z, p)

\* z = normr(direction), once the direction d is known
ViewFrom(self, d) ==
    IF d.err # "" THEN d
    ELSE IF self.up_vector.dev # d.val.dev THEN Raise(DeviceError)
    ELSE IF self.device # d.val.dev THEN Raise(DeviceError)
    ELSE Ok([v |-> ViewZ(self.up_vector.v, normr(d.val.v), self.position.v),
             dev |-> self.device])

view_matrix(self) == ViewFrom(self, direction(self))

\* self.position = self.position.to(**kwargs), and so on
VectorsTo(self, kwargs) ==
    CameraExtrinsic_setattr(
        CameraExtrinsic_setattr(
            CameraExtrinsic_setattr(self, "position", tensor_to(self.position, kwargs)),
            "target", tensor_to(self.target, kwargs)),
        "up_vector", tensor_to(self.up_vector, kwargs))

CameraExtrinsic_to(self, kwargs) ==
    VectorsTo(IF "device" \in DOMAIN kwargs
              THEN CameraExtrinsic_setattr(self, "device", kwargs.device) ELSE self,
              kwargs)

(***************************************************************************)
(* CameraIntrinsic                                                         *)
(***************************************************************************)
CameraIntrinsic_init(fov, near, far, image_size, projection, device) ==
    [fov |-> fov, near |-> near, far |-> far, image_size |-> image_size,
     projection |-> projection, device |-> device]

\* Python true division of the two integers
aspect(self) == Frac(self.image_size[1], self.image_size[2])

\* radians, counted in units of pi
deg2rad(d) == Frac(d, 180)

\* the tangent of x * pi: exact at pi/4, and 2 - sqrt(3) to 5e-7 at pi/12
tan(x) == CASE x = <<1, 4>>  -> Num(1)
            [] x = <<1, 12>> -> Frac(209, 780)

\* Python division of two numbers: a zero divisor raises
PyDivisible(b) == b[1] # 0

\* a variant of the orthographic entries with the depth offset of opposite sign
OrthographicOf_flipped(self, t) ==
    Ok([v |-> << <<RDiv(Num(1), RMul(aspect(self), t)), Num(0), Num(0), Num(0)>>,
                 <<Num(0), RDiv(Num(1), t), Num(0), Num(0)>>,
                 <<Num(0), Num(0), RDiv(Num(2), RSub(self.far, self.near)),
                   RDiv(RAdd(self.far, self.near), RSub(self.far, self.near))>>,
                 <<Num(0), Num(0), Num(0), Num(1)>> >>,
        dev |-> self.device])

\* the entries, for t = tan(fov / 2); a Python division by zero raises
OrthographicOf(self, t) ==
    IF ~PyDivisible(RMul(aspect(self), t)) \/ ~PyDivisible(t)
       \/ ~PyDivisible(RSub(self.far, self.near))
    THEN Raise("ZeroDivisionError")
    ELSE Ok([v |-> << <<RDiv(Num(1), RMul(aspect(self), t)), Num(0), Num(0), Num(0)>>,
                      <<Num(0), RDiv(Num(1), t), Num(0), Num(0)>>,
                      <<Num(0), Num(0), RDiv(Num(2), RSub(self.far, self.near)),
                        RDiv(RNeg(RAdd(self.far, self.near)), RSub(self.far, self.near))>>,
                      <<Num(0), Num(0), Num(0), Num(1)>> >>,
             dev |-> self.device])

orthographic_matrix(self) == OrthographicOf(self, tan(RDiv(deg2rad(self.fov), Num(2))))

\* a variant of the perspective entries without the factor -2 of the depth offset
PerspectiveOf_unscaled(self, t) ==
    Ok([v |-> << <<RDiv(Num(1), RMul(aspect(self), t)), Num(0), Num(0), Num(0)>>,
                 <<Num(0), RDiv(Num(1), t), Num(0), Num(0)>>,
                 <<Num(0), Num(0),
                   RDiv(RAdd(self.far, self.near), RSub(self.far, self.near)),
                   RDiv(RMul(self.far, self.near), RSub(self.far, self.near))>>,
                 <<Num(0), Num(0), Num(1), Num(0)>> >>,
        dev |-> self.device])

PerspectiveOf(self, t) ==
    IF ~PyDivisible(RMul(aspect(self), t)) \/ ~PyDivisible(t)
       \/ ~PyDivisible(RSub(self.far, self.near))
    THEN Raise("ZeroDivisionError")
    ELSE Ok([v |-> << <<RDiv(Num(1), RMul(aspect(self), t)), Num(0), Num(0), Num(0)>>,
                      <<Num(0), RDiv(Num(1), t), Num(0), Num(0)>>,
                      <<Num(0), Num(0),
                        RDiv(RAdd(self.far, self.near), RSub(self.far, self.near)),
                        RDiv(RMul(Num(-2), RMul(self.far, self.near)),
                             RSub(self.far, self.near))>>,
                      <<Num(0), Num(0), Num(1), Num(0)>> >>,
             dev |-> self.device])

perspective_matrix(self) == PerspectiveOf(self, tan(RDiv(deg2rad(self.fov), Num(2))))

\* a variant of the dispatch that falls back to the perspective matrix
projection_matrix_lenient(self) ==
    IF self.projection = "orthographic" THEN orthographic_matrix(self)
    ELSE perspective_matrix(self)

projection_matrix(self) ==
    IF self.projection = "orthographic" THEN orthographic_matrix(self)
    ELSE IF self.projection = "perspective" THEN perspective_matrix(self)
    ELSE Raise("ValueError")

\* a variant of to that leaves the intrinsic where it is
CameraIntrinsic_to_ignored(self, kwargs) == self

CameraIntrinsic_to(self, kwargs) ==
    IF "device" \in DOMAIN kwargs THEN [self EXCEPT !.device = kwargs.device] ELSE self

(***************************************************************************)
(* Camera.  A camera holds references (heap indices) to its extrinsic and  *)
(* intrinsic; H is the heap [ext, intr, cam] of all objects.               *)
(***************************************************************************)
\* self.extrinsic.to(**kwargs); self.intrinsic.to(**kwargs)
BothTo(H, c, kwargs) ==
    [H EXCEPT !.ext[H.cam[c].extrinsic]  = CameraExtrinsic_to(@, kwargs),
              !.intr[H.cam[c].intrinsic] = CameraIntrinsic_to(@, kwargs)]

\* the attribute is stored, and storing `device` retargets both referenced objects
Camera_setattr(H, c, key, value) ==
    IF key = "device"
    THEN BothTo([H EXCEPT !.cam[c][key] = value], c, [device |-> value])
    ELSE [H EXCEPT !.cam[c][key] = value]

\* Camera(extrinsic, intrinsic, name, device): the new camera is the last of H.cam
Camera_init(H, extrinsic, intrinsic, name, device) ==
    Camera_setattr(
        Camera_setattr(
            Camera_setattr(
                Camera_setattr(
                    [H EXCEPT !.cam = Append(H.cam, [extrinsic |-> 0, intrinsic |-> 0,
                                                     name |-> "", device |-> ""])],
                    Len(H.cam) + 1, "extrinsic", extrinsic),
                Len(H.cam) + 1, "intrinsic", intrinsic),
            Len(H.cam) + 1, "name", name),
        Len(H.cam) + 1, "device", device)

Camera_to(H, c, kwargs) ==
    BothTo(IF "device" \in DOMAIN kwargs
           THEN Camera_setattr(H, c, "device", kwargs.device) ELSE H,
           c, kwargs)

\* cart2homo(P, w=1, dim=-1): every row gets a fourth coordinate 1
cart2homo(P) == Tup([n \in 1..Len(P) |-> Append(P[n], Num(1))])

\* homo2cart(P, dim=-1): the first three coordinates over the fourth
homo2cart(P) ==
    Tup([n \in 1..Len(P) |-> <<RDiv(P[n][1], P[n][4]), RDiv(P[n][2], P[n][4]),
                               RDiv(P[n][3], P[n][4])>>])

\* the combined matrix projection_matrix() x view_matrix(), in evaluation order
\* torch.matmul(pm, vm) of the two call results, the projection evaluated first
MatmulOf(pm, vm) ==
    IF pm.err # "" THEN pm
    ELSE IF vm.err # "" THEN vm
    ELSE IF pm.val.dev # vm.val.dev THEN Raise(DeviceError)
    ELSE Ok([v |-> matmul(pm.val.v, vm.val.v), dev |-> pm.val.dev])

projection_view(H, c) ==
    MatmulOf(projection_matrix(H.intr[H.cam[c].intrinsic]),
             view_matrix(H.ext[H.cam[c].extrinsic]))

\* project(P, pixels, dim=-1) of an (N,3) tensor P
\* a variant of the scale that takes the width and the height themselves
ProjectScale_full(size, pixels) ==
    IF pixels THEN <<Frac(size[1], 2), Frac(size[2], 2), Frac(1, 2)>>
    ELSE <<Frac(1, 2), Frac(1, 2), Frac(1, 2)>>

\* the scale s of project: 0.5, times [width - 1, height - 1, 1] with pixels
ProjectScale(size, pixels) ==
    IF pixels THEN <<Frac(size[1] - 1, 2), Frac(size[2] - 1, 2), Frac(1, 2)>>
    ELSE <<Frac(1, 2), Frac(1, 2), Frac(1, 2)>>

\* U * s + s, row by row
Rescale(U, s) ==
    Tup([n \in 1..Len(U) |-> <<RAdd(RMul(U[n][1], s[1]), s[1]),
                               RAdd(RMul(U[n][2], s[2]), s[2]),
                               RAdd(RMul(U[n][3], s[3]), s[3])>>])

\* project, once the combined matrix pv is known
ProjectWith(pv, device, s, P, pixels) ==
    IF pv.err # "" THEN pv
    ELSE IF P.dev # pv.val.dev THEN Raise(DeviceError)
    ELSE IF pixels /\ device # P.dev THEN Raise(DeviceError)
    ELSE Ok([v |-> Rescale(homo2cart(matmul(cart2homo(P.v), transpose(pv.val.v))), s),
             dev |-> P.dev])

project(H, c, P, pixels) ==
    ProjectWith(projection_view(H, c), H.cam[c].device,
                ProjectScale(H.intr[H.cam[c].intrinsic].image_size, pixels), P, pixels)

\* unproject(UVd, pixels, dim=-1) of an (N,3) tensor UVd: with pixels the local
\* name P is read (P.device) before it is assigned
\* a variant of the normalisation without the shift to [-1, 1]
Normalized_unshifted(U, s) ==
    Tup([n \in 1..Len(U) |-> <<RMul(U[n][1], s), RMul(U[n][2], s), RMul(U[n][3], s)>>])

\* U * s - 1 for the scalar s, row by row
Normalized(U, s) ==
    Tup([n \in 1..Len(U) |-> <<RSub(RMul(U[n][1], s), Num(1)),
                               RSub(RMul(U[n][2], s), Num(1)),
                               RSub(RMul(U[n][3], s), Num(1))>>])

\* unproject without pixels, once the combined matrix pv is known; torch.inverse
\* raises on a singular matrix
UnprojectWith(pv, UVd) ==
    IF pv.err # "" THEN pv
    ELSE IF Det4(pv.val.v) = Num(0) THEN Raise(SingularError)
    ELSE IF UVd.dev # pv.val.dev THEN Raise(DeviceError)
    ELSE Ok([v |-> homo2cart(matmul(cart2homo(Normalized(UVd.v, Num(2))),
                                    transpose(inverse(pv.val.v)))),
             dev |-> UVd.dev])

unproject(H, c, UVd, pixels) ==
    IF pixels THEN Raise("UnboundLocalError")
    ELSE UnprojectWith(projection_view(H, c), UVd)

(***************************************************************************)
(* State.                                                                  *)
(*   ext, intr  the CameraExtrinsic / CameraIntrinsic objects; the first   *)
(*              of each is the default argument of Camera.__init__, built  *)
(*              once, when the module is imported                          *)
(*   cam        the Camera objects                                         *)
(*   ctor       per camera, the parameters its constructor call omitted    *)
(*              (a record of the call, not a field of the object)          *)
(*   hook       the hook table of the HookLayer, in insertion order        *)
(*   ret        the last call: its name, receiver, arguments and outcome   *)
(*   steps      the number of calls made                                   *)
(***************************************************************************)
VARIABLES ext, intr, cam, ctor, hook, ret, steps

vars == <<ext, intr, cam, ctor, hook, ret, steps>>

Heap == [ext |-> ext, intr |-> intr, cam |-> cam]

Call(op, self, args, res, out) ==
    [op |-> op, self |-> self, args |-> args, err |-> res.err, val |-> res.val, out |-> out]

Nothing == <<>>

(***************************************************************************)
(* Inputs.  Poses are chosen with rational norms, so that normr is exact.  *)
(***************************************************************************)
Positions == {<<0, 0, 0>>, <<0, 0, -3>>}
Targets   == {<<0, 0, 1>>, <<4, 0, 0>>}
UpVectors == {<<0, 1, 0>>, <<0, 2, 0>>}

Fovs        == {30, 90}
Nears       == {Frac(1, 10), Num(1)}
Fars        == {Num(10), Num(3)}
ImageSizes  == {<<256, 128>>, <<2, 2>>}
Projections == {"perspective", "orthographic", "fisheye"}

\* the keyword arguments of a to(**kwargs) call
Kwargs == {[device |-> d] : d \in Devices} \cup {[dtype |-> "float32"]}

TensorsOf(S) == {tensor(t, d) : t \in S, d \in Devices}

DefaultExtrinsic == CameraExtrinsic_init(<<0, 0, 0>>, <<0, 0, 1>>, <<0, 1, 0>>, DefaultDevice)

DefaultIntrinsic ==
    CameraIntrinsic_init(30, Frac(1, 10), Num(10), <<256, 256>>, "perspective", DefaultDevice)

Init ==
    /\ ext = <<DefaultExtrinsic>>
    /\ intr = <<DefaultIntrinsic>>
    /\ cam = <<>>
    /\ ctor = <<>>
    /\ hook = <<>>
    /\ ret = Call("import", Nothing, Nothing, Ok(NoTensor), Nothing)
    /\ steps = 0

Tick == steps < MaxSteps /\ steps' = steps + 1

ExtRef(e) == <<"CameraExtrinsic", e>>
IntrRef(i) == <<"CameraIntrinsic", i>>
CamRef(c) == <<"Camera", c>>

(***************************************************************************)
(* Calls on a CameraExtrinsic.                                             *)
(***************************************************************************)
NewExtrinsic(position, target, up_vector, device) ==
    /\ Tick
    /\ Len(ext) < 1 + MaxObjects
    /\ ext' = Append(ext, CameraExtrinsic_init(position, target, up_vector, device))
    /\ ret' = Call("CameraExtrinsic.__init__", ExtRef(Len(ext) + 1),
                   [position |-> position, target |-> target,
                    up_vector |-> up_vector, device |-> device],
                   Ok(NoTensor), ExtRef(Len(ext) + 1))
    /\ UNCHANGED <<intr, cam, ctor, hook>>

LookAt(e, target) ==
    /\ Tick
    /\ ext' = [ext EXCEPT ![e] = look_at(ext[e], target)]
    /\ ret' = Call("CameraExtrinsic.look_at", ExtRef(e), [target |-> target],
                   Ok(NoTensor), ExtRef(e))
    /\ UNCHANGED <<intr, cam, ctor, hook>>

LookFrom(e, position) ==
    /\ Tick
    /\ ext' = [ext EXCEPT ![e] = look_from(ext[e], position)]
    /\ ret' = Call("CameraExtrinsic.look_from", ExtRef(e), [position |-> position],
                   Ok(NoTensor), ExtRef(e))
    /\ UNCHANGED <<intr, cam, ctor, hook>>

\* extrinsic.key = value
ExtSetAttr(e, key, value) ==
    /\ Tick
    /\ ext' = [ext EXCEPT ![e] = CameraExtrinsic_setattr(ext[e], key, value)]
    /\ ret' = Call("CameraExtrinsic.__setattr__", ExtRef(e), [key |-> key, value |-> value],
                   Ok(NoTensor), Nothing)
    /\ UNCHANGED <<intr, cam, ctor, hook>>

ExtTo(e, kwargs) ==
    /\ Tick
    /\ ext' = [ext EXCEPT ![e] = CameraExtrinsic_to(ext[e], kwargs)]
    /\ ret' = Call("CameraExtrinsic.to", ExtRef(e), kwargs, Ok(NoTensor), ExtRef(e))
    /\ UNCHANGED <<intr, cam, ctor, hook>>

Direction(e) ==
    /\ Tick
    /\ ret' = Call("CameraExtrinsic.direction", ExtRef(e), Nothing, direction(ext[e]), Nothing)
    /\ UNCHANGED <<ext, intr, cam, ctor, hook>>

\* a variant of the call that answers with the matrix of the pose at import
ViewMatrix_cached(e) ==
    /\ Tick
    /\ ret' = Call("CameraExtrinsic.view_matrix", ExtRef(e), Nothing,
                   view_matrix(DefaultExtrinsic), Nothing)
    /\ UNCHANGED <<ext, intr, cam, ctor, hook>>

ViewMatrix(e) ==
    /\ Tick
    /\ ret' = Call("CameraExtrinsic.view_matrix", ExtRef(e), Nothing,
                   view_matrix(ext[e]), Nothing)
    /\ UNCHANGED <<ext, intr, cam, ctor, hook>>

(***************************************************************************)
(* Calls on a CameraIntrinsic.                                             *)
(***************************************************************************)
NewIntrinsic(fov, near, far, image_size, projection, device) ==
    /\ Tick
    /\ Len(intr) < 1 + MaxObjects
    /\ intr' = Append(intr, CameraIntrinsic_init(fov, near, far, image_size, projection, device))
    /\ ret' = Call("CameraIntrinsic.__init__", IntrRef(Len(intr) + 1),
                   [fov |-> fov, near |-> near, far |-> far, image_size |-> image_size,
                    projection |-> projection, device |-> device],
                   Ok(NoTensor), IntrRef(Len(intr) + 1))
    /\ UNCHANGED <<ext, cam, ctor, hook>>

\* intrinsic.key = value (the class defines no __setattr__ of its own)
IntrSetAttr(i, key, value) ==
    /\ Tick
    /\ intr' = [intr EXCEPT ![i][key] = value]
    /\ ret' = Call("CameraIntrinsic.__setattr__", IntrRef(i), [key |-> key, value |-> value],
                   Ok(NoTensor), Nothing)
    /\ UNCHANGED <<ext, cam, ctor, hook>>

IntrTo(i, kwargs) ==
    /\ Tick
    /\ intr' = [intr EXCEPT ![i] = CameraIntrinsic_to(intr[i], kwargs)]
    /\ ret' = Call("CameraIntrinsic.to", IntrRef(i), kwargs, Ok(NoTensor), IntrRef(i))
    /\ UNCHANGED <<ext, cam, ctor, hook>>

Aspect(i) ==
    /\ Tick
    /\ ret' = Call("CameraIntrinsic.aspect", IntrRef(i), Nothing,
                   Ok(PyFloat(aspect(intr[i]))), Nothing)
    /\ UNCHANGED <<ext, intr, cam, ctor, hook>>

ProjectionMatrix(i) ==
    /\ Tick
    /\ ret' = Call("CameraIntrinsic.projection_matrix", IntrRef(i), Nothing,
                   projection_matrix(intr[i]), Nothing)
    /\ UNCHANGED <<ext, intr, cam, ctor, hook>>

OrthographicMatrix(i) ==
    /\ Tick
    /\ ret' = Call("CameraIntrinsic.orthographic_matrix", IntrRef(i), Nothing,
                   orthographic_matrix(intr[i]), Nothing)
    /\ UNCHANGED <<ext, intr, cam, ctor, hook>>

PerspectiveMatrix(i) ==
    /\ Tick
    /\ ret' = Call("CameraIntrinsic.perspective_matrix", IntrRef(i), Nothing,
                   perspective_matrix(intr[i]), Nothing)
    /\ UNCHANGED <<ext, intr, cam, ctor, hook>>

(***************************************************************************)
(* Calls on a Camera.                                                      *)
(***************************************************************************)
\* Camera(extrinsic=e, intrinsic=i, device=device); e = 0 (i = 0) stands for the
\* argument left out, which Python fills with the default object
NewCamera(e, i, device) ==
    LET H == Camera_init(Heap, IF e = 0 THEN 1 ELSE e, IF i = 0 THEN 1 ELSE i,
                         "Camera", device)
    IN  /\ Tick
        /\ Len(cam) < MaxCameras
        /\ ext' = H.ext /\ intr' = H.intr /\ cam' = H.cam
        /\ ctor' = Append(ctor, (IF e = 0 THEN {"extrinsic"} ELSE {})
                                \cup (IF i = 0 THEN {"intrinsic"} ELSE {}))
        /\ ret' = Call("Camera.__init__", CamRef(Len(cam) + 1),
                       [extrinsic |-> e, intrinsic |-> i, device |-> device],
                       Ok(NoTensor), CamRef(Len(cam) + 1))
        /\ UNCHANGED hook

\* camera.device = device
CamSetDevice(c, device) ==
    LET H == Camera_setattr(Heap, c, "device", device)
    IN  /\ Tick
        /\ ext' = H.ext /\ intr' = H.intr /\ cam' = H.cam
        /\ ret' = Call("Camera.__setattr__", CamRef(c), [key |-> "device", value |-> device],
                       Ok(NoTensor), Nothing)
        /\ UNCHANGED <<ctor, hook>>

CamTo(c, kwargs) ==
    LET H == Camera_to(Heap, c, kwargs)
    IN  /\ Tick
        /\ ext' = H.ext /\ intr' = H.intr /\ cam' = H.cam
        /\ ret' = Call("Camera.to", CamRef(c), kwargs, Ok(NoTensor), CamRef(c))
        /\ UNCHANGED <<ctor, hook>>

Project(c, P, pixels) ==
    /\ Tick
    /\ ret' = Call("Camera.project", CamRef(c), [P |-> P, pixels |-> pixels],
                   project(Heap, c, P, pixels), Nothing)
    /\ UNCHANGED <<ext, intr, cam, ctor, hook>>

Unproject(c, UVd, pixels) ==
    /\ Tick
    /\ ret' = Call("Camera.unproject", CamRef(c), [UVd |-> UVd, pixels |-> pixels],
                   unproject(Heap, c, UVd, pixels), Nothing)
    /\ UNCHANGED <<ext, intr, cam, ctor, hook>>

(***************************************************************************)
(* The object specification: every call on every object, from the state    *)
(* the import leaves.                                                      *)
(***************************************************************************)
Next ==
    \/ \E p \in Positions, d \in Devices : NewExtrinsic(p, <<0, 0, 1>>, <<0, 1, 0>>, d)
    \/ \E e \in DOMAIN ext, t \in TensorsOf(Targets) : LookAt(e, t)
    \/ \E e \in DOMAIN ext, p \in TensorsOf(Positions) : LookFrom(e, p)
    \/ \E e \in DOMAIN ext, u \in TensorsOf(UpVectors) : ExtSetAttr(e, "up_vector", u)
    \/ \E e \in DOMAIN ext, d \in Devices : ExtSetAttr(e, "device", d)
    \/ \E e \in DOMAIN ext, kw \in Kwargs : ExtTo(e, kw)
    \/ \E e \in DOMAIN ext : Direction(e)
    \/ \E e \in DOMAIN ext : ViewMatrix(e)
    \/ \E pr \in Projections, d \in Devices :
            NewIntrinsic(90, Num(1), Num(3), <<2, 2>>, pr, d)
    \/ \E i \in DOMAIN intr, f \in Fovs : IntrSetAttr(i, "fov", f)
    \/ \E i \in DOMAIN intr, n \in Nears : IntrSetAttr(i, "near", n)
    \/ \E i \in DOMAIN intr, f \in Fars : IntrSetAttr(i, "far", f)
    \/ \E i \in DOMAIN intr, sz \in ImageSizes : IntrSetAttr(i, "image_size", sz)
    \/ \E i \in DOMAIN intr, pr \in Projections : IntrSetAttr(i, "projection", pr)
    \/ \E i \in DOMAIN intr, d \in Devices : IntrSetAttr(i, "device", d)
    \/ \E i \in DOMAIN intr, kw \in Kwargs : IntrTo(i, kw)
    \/ \E i \in DOMAIN intr : Aspect(i)
    \/ \E i \in DOMAIN intr : ProjectionMatrix(i)
    \/ \E i \in DOMAIN intr : OrthographicMatrix(i)
    \/ \E i \in DOMAIN intr : PerspectiveMatrix(i)
    \/ \E e \in 0..Len(ext), i \in 0..Len(intr), d \in Devices : NewCamera(e, i, d)
    \/ \E c \in DOMAIN cam, d \in Devices : CamSetDevice(c, d)
    \/ \E c \in DOMAIN cam, kw \in Kwargs : CamTo(c, kw)

Spec == Init /\ [][Next]_vars

(***************************************************************************)
(* The arithmetic specification: one camera, built from its own extrinsic  *)
(* and intrinsic with arguments drawn from the input sets, and the matrix, *)
(* project and unproject calls applied to it; unproject is applied to      *)
(* fixed inputs and to what project has just returned.                     *)
(***************************************************************************)
\* <<near, far>>: the default planes, the planes of a unit-depth frustum, a
\* near plane at distance zero, and coinciding planes
ClipPlanes == { <<Frac(1, 10), Num(10)>>, <<Num(1), Num(3)>>,
                <<Num(0), Num(3)>>, <<Num(1), Num(1)>> }

ImageSizesMath == {<<2, 2>>, <<256, 128>>}

\* (N,3) point sets, as tuples of integer points
PointSets == { << <<0, 0, 2>> >>, << <<1, -1, 2>>, <<0, 1, 3>> >> }

Points(P, device) == [v |-> Tup([n \in 1..Len(P) |-> Vec(P[n])]), dev |-> device]

\* .5 as two integers
Half == Frac(1, 2)

UVdInputs == { [v |-> << <<Half, Half, Half>> >>, dev |-> d] : d \in Devices }

InitMath ==
    /\ \E p \in Positions, t \in Targets, f \in Fovs, nf \in ClipPlanes,
          sz \in ImageSizesMath, pr \in Projections :
          LET H == Camera_init(
                     [ext  |-> <<DefaultExtrinsic,
                                 CameraExtrinsic_init(p, t, <<0, 1, 0>>, DefaultDevice)>>,
                      intr |-> <<DefaultIntrinsic,
                                 CameraIntrinsic_init(f, nf[1], nf[2], sz, pr, DefaultDevice)>>,
                      cam  |-> <<>>],
                     2, 2, "Camera", DefaultDevice)
          IN  ext = H.ext /\ intr = H.intr /\ cam = H.cam
    /\ ctor = <<{}>>
    /\ hook = <<>>
    /\ ret = Call("Camera.__init__", CamRef(1), Nothing, Ok(NoTensor), CamRef(1))
    /\ steps = 0

NextMath ==
    \/ /\ steps = 0
       /\ \/ \E P \in PointSets, d \in Devices, px \in BOOLEAN : Project(1, Points(P, d), px)
          \/ \E U \in UVdInputs, px \in BOOLEAN : Unproject(1, U, px)
          \/ ViewMatrix(2)
          \/ Aspect(2)
          \/ ProjectionMatrix(2)
          \/ OrthographicMatrix(2)
          \/ PerspectiveMatrix(2)
    \/ /\ steps = 1
       /\ ret.op = "Camera.project" /\ ret.err = ""
       /\ \E px \in BOOLEAN : Unproject(1, ret.val, px)

SpecMath == InitMath /\ [][NextMath]_vars

(***************************************************************************)
(* Properties of project and unproject, under SpecMath.                    *)
(***************************************************************************)
\* every coordinate of every projected point is a number in [0, 1]: the point
\* lies inside the view frustum
InFrustum(UVd) ==
    \A n \in 1..Len(UVd.v) : \A k \in 1..3 :
        /\ IsFinite(UVd.v[n][k])
        /\ RLeq(Num(0), UVd.v[n][k])
        /\ RLeq(UVd.v[n][k], Num(1))

Invertible(pv) == pv.err = "" /\ Det4(pv.val.v) # Num(0)

\* projection_matrix x view_matrix exists and is not invertible
Singular(pv) == pv.err = "" /\ Det4(pv.val.v) = Num(0)

\* a known projection kind, 0 < near < far, and an invertible combined matrix
ValidCamera(c) ==
    /\ intr[cam[c].intrinsic].projection \in {"perspective", "orthographic"}
    /\ RLeq(Num(0), intr[cam[c].intrinsic].near)
    /\ intr[cam[c].intrinsic].near # Num(0)
    /\ RLeq(intr[cam[c].intrinsic].near, intr[cam[c].intrinsic].far)
    /\ intr[cam[c].intrinsic].near # intr[cam[c].intrinsic].far
    /\ Invertible(projection_view(Heap, c))

\* the step from a successful project(P, pixels=b) to unproject of its result
\* with the same b
RoundTripStep(b) ==
    /\ ret.op = "Camera.project" /\ ret.err = "" /\ ret.args.pixels = b
    /\ ret'.op = "Camera.unproject" /\ ret'.args.pixels = b
    /\ ret'.args.UVd = ret.val

\* C1: on a valid camera, unproject(project(P, pixels=False), pixels=False)
\* returns P for every point set P that project maps inside the frustum.
C1_RoundTrip ==
    [][(RoundTripStep(FALSE) /\ ValidCamera(1) /\ InFrustum(ret.val))
       => (ret'.err = "" /\ ret'.val = ret.args.P)]_vars

\* C1 happens: unproject without pixels has answered for two projected points
\* inside the frustum of a valid camera
C1_Witness ==
    /\ steps = 2
    /\ ret.op = "Camera.unproject" /\ ~ret.args.pixels /\ ret.err = ""
    /\ ValidCamera(1)
    /\ InFrustum(ret.args.UVd)
    /\ Len(ret.val.v) = 2

\* C2: on a valid camera, unproject(project(P, pixels=True), pixels=True)
\* completes and returns P for every point set P inside the frustum.
C2_RoundTripPixels ==
    [][(RoundTripStep(TRUE) /\ ValidCamera(1)
        /\ InFrustum(project(Heap, 1, ret.args.P, FALSE).val))
       => (ret'.err = "" /\ ret'.val = ret.args.P)]_vars

\* C9: whenever the combined matrix is not invertible, unproject fails with the
\* singular-matrix error, returns no points and leaves the camera state as it was.
C9_SingularFails ==
    [][(ret'.op = "Camera.unproject" /\ Singular(projection_view(Heap, ret'.self[2])))
       => (/\ ret'.err = SingularError
           /\ ret'.val = NoTensor
           /\ <<ext', intr', cam'>> = <<ext, intr, cam>>)]_vars

(***************************************************************************)
(* Properties of the objects, under Spec.                                  *)
(***************************************************************************)
\* the last call was made through camera c: on the camera itself, on the
\* extrinsic it refers to, or on the intrinsic it refers to
ThroughCamera(r, c) ==
    \/ r.self = CamRef(c) /\ r.op \in {"Camera.to", "Camera.__setattr__"}
    \/ /\ r.self = ExtRef(cam[c].extrinsic)
       /\ r.op \in {"CameraExtrinsic.look_at", "CameraExtrinsic.look_from",
                    "CameraExtrinsic.to", "CameraExtrinsic.__setattr__"}
    \/ /\ r.self = IntrRef(cam[c].intrinsic)
       /\ r.op \in {"CameraIntrinsic.to", "CameraIntrinsic.__setattr__"}

\* C3: of two cameras both constructed without an extrinsic and an intrinsic
\* argument, a mutation through one leaves the extrinsic and the intrinsic of
\* the other unchanged.
C3_ExclusiveOwnership ==
    [][\A a, b \in DOMAIN cam :
          (/\ a # b
           /\ ctor[a] = {"extrinsic", "intrinsic"}
           /\ ctor[b] = {"extrinsic", "intrinsic"}
           /\ ThroughCamera(ret', a))
          => (/\ ext'[cam[b].extrinsic] = ext[cam[b].extrinsic]
              /\ intr'[cam[b].intrinsic] = intr[cam[b].intrinsic])]_vars

\* the call r assigned the device attribute of an extrinsic
ExtDeviceAssigned(r) ==
    \/ r.op = "CameraExtrinsic.__setattr__" /\ r.args.key = "device"
    \/ r.op = "CameraExtrinsic.to" /\ "device" \in DOMAIN r.args

AssignedDevice(r) == IF "device" \in DOMAIN r.args THEN r.args.device ELSE r.args.value

\* the numeric values of the three vectors
Pose(e) == <<e.position.v, e.target.v, e.up_vector.v>>

\* the placement of the three vectors
Placement(e) == <<e.position.dev, e.target.dev, e.up_vector.dev>>

\* C4: right after the device attribute of a CameraExtrinsic is assigned D
\* (directly or by to(device=D)), position, target and up_vector are placed
\* on D and their numeric values are what they were.
C4_DeviceCascade ==
    [][ExtDeviceAssigned(ret')
       => (/\ ext'[ret'.self[2]].device = AssignedDevice(ret')
           /\ Placement(ext'[ret'.self[2]])
                = <<AssignedDevice(ret'), AssignedDevice(ret'), AssignedDevice(ret')>>
           /\ Pose(ext'[ret'.self[2]]) = Pose(ext[ret'.self[2]]))]_vars

\* C4 happens: an extrinsic whose position was replaced has been assigned the
\* device "cpu", and its vectors are there
C4_Witness ==
    /\ ret.op = "CameraExtrinsic.__setattr__" /\ ret.args.key = "device"
    /\ ret.args.value = "cpu"
    /\ Placement(ext[ret.self[2]]) = <<"cpu", "cpu", "cpu">>
    /\ Pose(ext[ret.self[2]]) # Pose(DefaultExtrinsic)

\* the call r retargeted a camera
CamDeviceAssigned(r) ==
    \/ r.op = "Camera.__setattr__" /\ r.args.key = "device"
    \/ r.op = "Camera.to" /\ "device" \in DOMAIN r.args

\* C5: after Camera.to(device=D) or camera.device = D, the camera, its
\* extrinsic, its intrinsic and the extrinsic's three vectors are all on D,
\* and to returns the camera itself.
C5_CameraTo ==
    CamDeviceAssigned(ret)
    => (/\ cam[ret.self[2]].device = AssignedDevice(ret)
        /\ ext[cam[ret.self[2]].extrinsic].device = AssignedDevice(ret)
        /\ intr[cam[ret.self[2]].intrinsic].device = AssignedDevice(ret)
        /\ Placement(ext[cam[ret.self[2]].extrinsic])
             = <<AssignedDevice(ret), AssignedDevice(ret), AssignedDevice(ret)>>
        /\ (ret.op = "Camera.to" => ret.out = ret.self))

\* C5 happens: a camera built on its own extrinsic and intrinsic has been moved
\* to "cpu" by to(device="cpu")
C5_Witness ==
    /\ ret.op = "Camera.to" /\ ret.args = [device |-> "cpu"]
    /\ cam[ret.self[2]].extrinsic = 2
    /\ ext[2].device = "cpu"
    /\ intr[cam[ret.self[2]].intrinsic].device = "cpu"

\* the calls that may change the numeric values of a pose
PoseWriters ==
    {"CameraExtrinsic.look_at", "CameraExtrinsic.look_from",
     "CameraExtrinsic.to", "CameraExtrinsic.__setattr__"}

\* C6: look_at(t) replaces only the target by t and look_from(p) only the
\* position by p, each returns the extrinsic itself and leaves the other
\* vectors, the device and every other extrinsic as they were; and the pose of
\* an extrinsic changes in no call but look_at, look_from, to and an attribute
\* assignment.
C6_LookAtLookFrom ==
    [][/\ ret'.op = "CameraExtrinsic.look_at"
          => (/\ ext' = [ext EXCEPT ![ret'.self[2]].target = ret'.args.target]
              /\ ret'.out = ret'.self)
       /\ ret'.op = "CameraExtrinsic.look_from"
          => (/\ ext' = [ext EXCEPT ![ret'.self[2]].position = ret'.args.position]
              /\ ret'.out = ret'.self)
       /\ (\E e \in DOMAIN ext : Pose(ext'[e]) # Pose(ext[e]))
          => ret'.op \in PoseWriters]_vars

\* C6 happens: look_at has given the import-time extrinsic a new target and a
\* new placement of the target only
C6_Witness ==
    /\ ret.op = "CameraExtrinsic.look_at"
    /\ ext[ret.self[2]].target = ret.args.target
    /\ ret.args.target.v # DefaultExtrinsic.target.v
    /\ ret.args.target.dev # ext[ret.self[2]].device
    /\ ext[ret.self[2]].position = DefaultExtrinsic.position
    /\ ext[ret.self[2]].up_vector = DefaultExtrinsic.up_vector

\* the answer of the last call, as a call result
Answer(r) == [err |-> r.err, val |-> r.val]

\* C8: projection_matrix() answers with orthographic_matrix() for
\* "orthographic", with perspective_matrix() for "perspective" and raises
\* ValueError for any other kind, leaving the intrinsic as it was; constructing
\* an intrinsic of an unknown kind succeeds.
C8_ProjectionDispatch ==
    [][/\ ret'.op = "CameraIntrinsic.projection_matrix"
          => (/\ intr' = intr
              /\ intr[ret'.self[2]].projection = "orthographic"
                 => Answer(ret') = orthographic_matrix(intr[ret'.self[2]])
              /\ intr[ret'.self[2]].projection = "perspective"
                 => Answer(ret') = perspective_matrix(intr[ret'.self[2]])
              /\ intr[ret'.self[2]].projection \notin {"orthographic", "perspective"}
                 => Answer(ret') = Raise("ValueError"))
       /\ ret'.op = "CameraIntrinsic.__init__"
          => (/\ ret'.err = ""
              /\ intr'[ret'.self[2]].projection = ret'.args.projection)]_vars

\* C8 happens: an intrinsic constructed with the kind "fisheye" has raised
\* ValueError in projection_matrix()
C8_Witness ==
    /\ ret.op = "CameraIntrinsic.projection_matrix"
    /\ ret.self = IntrRef(2)
    /\ intr[2].projection = "fisheye"
    /\ ret.err = "ValueError"

\* tan(fov / 2) of an intrinsic
HalfFovTan(i) == tan(RDiv(deg2rad(i.fov), Num(2)))

\* the entry (r, c), counted from 0, the orthographic matrix is to have
OrthographicEntry(i, r, c) ==
    CASE r = 0 /\ c = 0 -> RDiv(Num(1), RMul(Frac(i.image_size[1], i.image_size[2]),
                                             HalfFovTan(i)))
      [] r = 1 /\ c = 1 -> RDiv(Num(1), HalfFovTan(i))
      [] r = 2 /\ c = 2 -> RDiv(Num(2), RSub(i.far, i.near))
      [] r = 2 /\ c = 3 -> RDiv(RNeg(RAdd(i.far, i.near)), RSub(i.far, i.near))
      [] r = 3 /\ c = 3 -> Num(1)
      [] OTHER -> Num(0)

\* C10: orthographic_matrix() returns the 4x4 matrix with 1/(aspect*tan(fov/2)),
\* 1/tan(fov/2), 2/(far-near), -(far+near)/(far-near) and 1 at (0,0), (1,1),
\* (2,2), (2,3) and (3,3) and zero elsewhere; for fov=90, near=1, far=3 and
\* image_size=(2,2) these are 1, 1, 1, -2 and 1.
C10_Orthographic ==
    (ret.op = "CameraIntrinsic.orthographic_matrix"
     /\ intr[ret.self[2]].near # intr[ret.self[2]].far)
    => (/\ ret.err = ""
        /\ Len(ret.val.v) = 4
        /\ \A r \in 0..3 :
              /\ Len(ret.val.v[r + 1]) = 4
              /\ \A c \in 0..3 :
                    ret.val.v[r + 1][c + 1] = OrthographicEntry(intr[ret.self[2]], r, c)
        /\ (/\ intr[ret.self[2]].fov = 90
            /\ intr[ret.self[2]].near = Num(1)
            /\ intr[ret.self[2]].far = Num(3)
            /\ intr[ret.self[2]].image_size = <<2, 2>>)
           => ret.val.v = << <<Num(1), Num(0), Num(0), Num(0)>>,
                             <<Num(0), Num(1), Num(0), Num(0)>>,
                             <<Num(0), Num(0), Num(1), Num(-2)>>,
                             <<Num(0), Num(0), Num(0), Num(1)>> >>)

\* C10 happens: orthographic_matrix() has answered for fov=90, near=1, far=3
\* and image_size=(2,2)
C10_Witness ==
    /\ ret.op = "CameraIntrinsic.orthographic_matrix" /\ ret.err = ""
    /\ intr[ret.self[2]].fov = 90
    /\ intr[ret.self[2]].near = Num(1)
    /\ intr[ret.self[2]].far = Num(3)
    /\ intr[ret.self[2]].image_size = <<2, 2>>
    /\ ret.val.v[3][4] = Num(-2)

\* the entry (r, c), counted from 0, the perspective matrix is to have
PerspectiveEntry(i, r, c) ==
    CASE r = 0 /\ c = 0 -> OrthographicEntry(i, 0, 0)
      [] r = 1 /\ c = 1 -> OrthographicEntry(i, 1, 1)
      [] r = 2 /\ c = 2 -> RDiv(RAdd(i.far, i.near), RSub(i.far, i.near))
      [] r = 2 /\ c = 3 -> RDiv(RMul(Num(-2), RMul(i.far, i.near)), RSub(i.far, i.near))
      [] r = 3 /\ c = 2 -> Num(1)
      [] OTHER -> Num(0)

\* C11: perspective_matrix() returns the 4x4 matrix with the orthographic
\* entries at (0,0) and (1,1), (far+near)/(far-near) at (2,2),
\* -2*far*near/(far-near) at (2,3), 1 at (3,2) and zero elsewhere, (3,3)
\* included; for fov=90, near=1, far=3 and image_size=(2,2) the entries at
\* (3,2), (2,2) and (2,3) are 1, 2 and -3.
C11_Perspective ==
    (ret.op = "CameraIntrinsic.perspective_matrix"
     /\ intr[ret.self[2]].near # intr[ret.self[2]].far)
    => (/\ ret.err = ""
        /\ Len(ret.val.v) = 4
        /\ \A r \in 0..3 :
              /\ Len(ret.val.v[r + 1]) = 4
              /\ \A c \in 0..3 :
                    ret.val.v[r + 1][c + 1] = PerspectiveEntry(intr[ret.self[2]], r, c)
        /\ ret.val.v[1][1] = orthographic_matrix(intr[ret.self[2]]).val.v[1][1]
        /\ ret.val.v[2][2] = orthographic_matrix(intr[ret.self[2]]).val.v[2][2]
        /\ (/\ intr[ret.self[2]].fov = 90
            /\ intr[ret.self[2]].near = Num(1)
            /\ intr[ret.self[2]].far = Num(3)
            /\ intr[ret.self[2]].image_size = <<2, 2>>)
           => ret.val.v = << <<Num(1), Num(0), Num(0), Num(0)>>,
                             <<Num(0), Num(1), Num(0), Num(0)>>,
                             <<Num(0), Num(0), Num(2), Num(-3)>>,
                             <<Num(0), Num(0), Num(1), Num(0)>> >>)

\* C11 happens: perspective_matrix() has answered for fov=90, near=1, far=3
\* and image_size=(2,2)
C11_Witness ==
    /\ ret.op = "CameraIntrinsic.perspective_matrix" /\ ret.err = ""
    /\ intr[ret.self[2]].fov = 90
    /\ intr[ret.self[2]].near = Num(1)
    /\ intr[ret.self[2]].far = Num(3)
    /\ intr[ret.self[2]].image_size = <<2, 2>>
    /\ ret.val.v[3][4] = Num(-3)

\* the import-time pose: position (0,0,0), target (0,0,1), up_vector (0,1,0)
DefaultPose == <<Vec(<<0, 0, 0>>), Vec(<<0, 0, 1>>), Vec(<<0, 1, 0>>)>>

\* column c (from 1) of the top-left 3x3 block of a 4x4 matrix
BlockColumn(M, c) == <<M[1][c], M[2][c], M[3][c]>>

\* C12: for position (0,0,0), target (0,0,1) and up_vector (0,1,0),
\* view_matrix() has the basis z = (0,0,1), x = (1,0,0) or (-1,0,0), y
\* orthogonal to both, the translation column (0,0,0) and the last row
\* (0,0,0,1).
C12_DefaultView ==
    (ret.op = "CameraExtrinsic.view_matrix" /\ ret.err = ""
     /\ Pose(ext[ret.self[2]]) = DefaultPose)
    => (/\ BlockColumn(ret.val.v, 3) = Vec(<<0, 0, 1>>)
        /\ BlockColumn(ret.val.v, 1) \in {Vec(<<1, 0, 0>>), Vec(<<-1, 0, 0>>)}
        /\ dot(BlockColumn(ret.val.v, 2), BlockColumn(ret.val.v, 1)) = Num(0)
        /\ dot(BlockColumn(ret.val.v, 2), BlockColumn(ret.val.v, 3)) = Num(0)
        /\ BlockColumn(ret.val.v, 2) # Vec(<<0, 0, 0>>)
        /\ BlockColumn(ret.val.v, 4) = Vec(<<0, 0, 0>>)
        /\ ret.val.v[4] = Vec(<<0, 0, 0, 1>>))

\* C12 happens: view_matrix() has answered for an extrinsic constructed with
\* position (0,0,0), target (0,0,1) and up_vector (0,1,0)
C12_Witness ==
    /\ ret.op = "CameraExtrinsic.view_matrix" /\ ret.err = ""
    /\ ret.self = ExtRef(2)
    /\ Pose(ext[2]) = DefaultPose
    /\ ret.val.v[4] = Vec(<<0, 0, 0, 1>>)

\* M is the view matrix of the position p, the direction d and the up vector
\* u, told by what its columns are: the third is the unit vector along d, the
\* first the unit vector orthogonal to u and to the third and turned like
\* cross(u, d), the second completes them to a right-handed basis, the fourth
\* is -p, and the last row is (0, 0, 0, 1)
IsUnit(a) == dot(a, a) = Num(1)

Along(a, b) == cross(a, b) = Vec(<<0, 0, 0>>) /\ ~RLeq(dot(a, b), Num(0))

ViewMatrixOf(M, p, d, u) ==
    /\ Len(M) = 4 /\ \A r \in 1..4 : Len(M[r]) = 4
    /\ IsUnit(BlockColumn(M, 3)) /\ Along(BlockColumn(M, 3), d)
    /\ IsUnit(BlockColumn(M, 1)) /\ Along(BlockColumn(M, 1), cross(u, d))
    /\ IsUnit(BlockColumn(M, 2))
    /\ Along(BlockColumn(M, 2), cross(d, cross(u, d)))
    /\ BlockColumn(M, 4) = <<RNeg(p[1]), RNeg(p[2]), RNeg(p[3])>>
    /\ M[4] = Vec(<<0, 0, 0, 1>>)

\* the answer r of view_matrix() is the one of the fields of the extrinsic e:
\* a matrix exactly when the three vectors are on the device of e
ViewAnswer(r, e) ==
    /\ r.err = "" <=> Placement(e) = <<e.device, e.device, e.device>>
    /\ r.err = "" => ViewMatrixOf(r.val.v, e.position.v,
                                  VSub(e.target.v, e.position.v), e.up_vector.v)

\* the answer r of projection_matrix() is the one of the fields of the
\* intrinsic i: the entries of the kind i names, from its fov, near, far and
\* image_size
ProjectionAnswer(r, i) ==
    /\ i.projection \notin {"orthographic", "perspective"} <=> r.err = "ValueError"
    /\ (i.projection = "orthographic" /\ i.near # i.far)
          => (r.err = "" /\ \A row \in 0..3 : \A c \in 0..3 :
                 r.val.v[row + 1][c + 1] = OrthographicEntry(i, row, c))
    /\ (i.projection = "perspective" /\ i.near # i.far)
          => (r.err = "" /\ \A row \in 0..3 : \A c \in 0..3 :
                 r.val.v[row + 1][c + 1] = PerspectiveEntry(i, row, c))

\* C7: whatever mutations came before, view_matrix() and projection_matrix()
\* answer with the matrix of the field values the object has at the call, told
\* here from those fields alone, and the call itself changes no object.
C7_NoCaching ==
    [][/\ ret'.op = "CameraExtrinsic.view_matrix"
          => (ext' = ext /\ ViewAnswer(ret', ext[ret'.self[2]]))
       /\ ret'.op = "CameraIntrinsic.projection_matrix"
          => (intr' = intr /\ ProjectionAnswer(ret', intr[ret'.self[2]]))]_vars

\* C7 happens: view_matrix has answered for the import-time extrinsic after
\* its pose was changed, with a matrix other than that of the import-time pose
C7_Witness ==
    /\ ret.op = "CameraExtrinsic.view_matrix" /\ ret.err = ""
    /\ ret.self = ExtRef(1)
    /\ Pose(ext[1]) # Pose(DefaultExtrinsic)
    /\ ret.val.v # view_matrix(DefaultExtrinsic).val.v

(***************************************************************************)
(* The rig generators: camera_n, bokeh_camera, camera_from_polyhedron.     *)
(* Angles are rationals in units of pi.  Cosine and sine are computed from *)
(* a rational tangent of the half angle, so that cos^2 + sin^2 = 1 holds   *)
(* exactly, as it does for the real functions.                             *)
(***************************************************************************)
\* tan(pi * r / 2) for a small r: pi/2 taken as 11/7, and pi/100 as 2 * atan(1/64)
SmallTanHalf(r) == IF r = Frac(1, 100) THEN Frac(1, 64) ELSE RMul(r, Frac(11, 7))

CosFromTanHalf(t) == RDiv(RSub(Num(1), RMul(t, t)), RAdd(Num(1), RMul(t, t)))

SinFromTanHalf(t) == RDiv(RMul(Num(2), t), RAdd(Num(1), RMul(t, t)))

\* the multiple of pi/2 nearest to the angle u
QuarterTurns(u) == (4 * u[1] + u[2]) \div (2 * u[2])

\* cos and sin of q * pi/2 + (an angle of cosine c and sine s)
CosTurned(q, c, s) ==
    CASE q % 4 = 0 -> c [] q % 4 = 1 -> RNeg(s) [] q % 4 = 2 -> RNeg(c) [] OTHER -> s

SinTurned(q, c, s) ==
    CASE q % 4 = 0 -> s [] q % 4 = 1 -> c [] q % 4 = 2 -> RNeg(s) [] OTHER -> RNeg(c)

CosBy(q, t) == CosTurned(q, CosFromTanHalf(t), SinFromTanHalf(t))

SinBy(q, t) == SinTurned(q, CosFromTanHalf(t), SinFromTanHalf(t))

RestOf(u, q) == SmallTanHalf(RSub(u, Frac(q, 2)))

cos(u) == IF IsFinite(u) THEN CosBy(QuarterTurns(u), RestOf(u, QuarterTurns(u))) ELSE NaN

sin(u) == IF IsFinite(u) THEN SinBy(QuarterTurns(u), RestOf(u, QuarterTurns(u))) ELSE NaN

\* sph2cart of one row (radius, azimuth, elevation)
Sph2CartRow(p) ==
    << RMul(p[1], RMul(cos(p[3]), cos(p[2]))),
       RMul(p[1], RMul(cos(p[3]), sin(p[2]))),
       RMul(p[1], sin(p[3])) >>

sph2cart(P) == Tup([k \in 1..Len(P) |-> Sph2CartRow(P[k])])

\* the angles cart2sph can answer with: the multiples of pi/6 of one turn
\* (azimuth) and of half a turn (elevation)
Azimuths == {Frac(k, 6) : k \in -5..6}

Elevations == {Frac(k, 6) : k \in -3..3}

\* the rows (radius r, azimuth, elevation) that sph2cart maps to the row p
SphericalOf(p, r) ==
    {q \in {<<r, az, el>> : az \in Azimuths,
                            el \in {l \in Elevations : RMul(r, sin(l)) = p[3]}} :
        Sph2CartRow(q) = p}

\* one of them, the same at every call; non-finite angles when there is none
PickSpherical(S, r) == IF S = {} THEN <<r, NaN, NaN>> ELSE CHOOSE q \in S : TRUE

Cart2SphBy(p, r) == PickSpherical(SphericalOf(p, r), r)

Cart2SphRow(p) == Cart2SphBy(p, RSqrt(dot(p, p)))

cart2sph(P) == Tup([k \in 1..Len(P) |-> Cart2SphRow(P[k])])

\* equilateral_polygon(n): the n vertices of the regular n-gon of
\* circumradius 1 on the XY plane, from angle 0
equilateral_polygon(n) ==
    Tup([k \in 1..n |-> <<cos(Frac(2 * (k - 1), n)), sin(Frac(2 * (k - 1), n)), Num(0)>>])

\* torch.mul(P, a)
Scaled(P, a) == Tup([k \in 1..Len(P) |-> Tup([j \in 1..Len(P[k]) |-> RMul(P[k][j], a)])])

\* indices(a, b): the integers a, a+1, ..., b
indices(a, b) == Tup([k \in 1..(b - a + 1) |-> a + k - 1])

\* edge e of a topology T takes vertex PolyRow of polygon PolyCol, to the next
PolyRow(T, e) == ((e - 1) \div Len(T[1])) + 1

PolyCol(T, e) == ((e - 1) % Len(T[1])) + 1

NextRow(T, i) == (i % Len(T)) + 1

\* poly2edge(T)[0] of a topology with one polygon per column: a topology of
\* two rows is an edge tensor already, a polygon of more vertices gives the
\* edges between its consecutive vertices, the last back to the first
poly2edge(T) ==
    IF Len(T) = 2 THEN T
    ELSE << Tup([e \in 1..(Len(T) * Len(T[1])) |-> T[PolyRow(T, e)][PolyCol(T, e)]]),
            Tup([e \in 1..(Len(T) * Len(T[1])) |->
                   T[NextRow(T, PolyRow(T, e))][PolyCol(T, e)]]) >>

\* a variant of the chain that closes the polygon
ChainTopology_closed(n) == <<indices(0, n - 1), Append(indices(1, n - 1), 0)>>

\* torch.t(torch.cat((indices(0, n-2), indices(1, n-1)), dim=1))
ChainTopology(n) == <<indices(0, n - 2), indices(1, n - 1)>>

\* the positions as returned: spherical when to_spherical is set
Returned(P, to_spherical) == IF to_spherical THEN cart2sph(P) ELSE P

camera_n(n, camera_distance, to_spherical) ==
    [P |-> Returned(Scaled(equilateral_polygon(n), camera_distance), to_spherical),
     E |-> poly2edge(ChainTopology(n))]

\* torch.zeros_like(P)
zeros_like(P) == Tup([k \in 1..Len(P) |-> Tup([j \in 1..Len(P[k]) |-> Num(0)])])

\* a variant of the offsets in which every row is perturbed
BokehOffsets_unanchored(P, n, aperture) == Scaled(equilateral_polygon(n + 1), aperture)

\* Q = torch.cat((torch.zeros_like(P), aperture*equilateral_polygon(n)), dim=0)
BokehOffsets(P, n, aperture) == zeros_like(P) \o Scaled(equilateral_polygon(n), aperture)

\* Q[:, (2, 0, 1)]
Permuted(Q) == Tup([k \in 1..Len(Q) |-> <<Q[k][3], Q[k][1], Q[k][2]>>])

\* the row of S that is added to row k of Q: the only one when S has one row
BroadcastRow(S, k) == IF Len(S) = 1 THEN S[1] ELSE S[k]

\* S + Q of an (M,3) and an (N,3) tensor: torch broadcasts M = 1 and refuses
\* any other M # N
BroadcastAdd(S, Q) ==
    IF Len(S) # 1 /\ Len(S) # Len(Q) THEN Raise("RuntimeError: size mismatch")
    ELSE Ok(Tup([k \in 1..Len(Q) |->
                   <<RAdd(BroadcastRow(S, k)[1], Q[k][1]),
                     RAdd(BroadcastRow(S, k)[2], Q[k][2]),
                     RAdd(BroadcastRow(S, k)[3], Q[k][3])>>]))

Sph2CartOf(r) == IF r.err # "" THEN r ELSE Ok(sph2cart(r.val))

\* sph2cart(cart2sph(P) + Q[:, (2, 0, 1)])
bokeh_camera(P, n, aperture) ==
    Sph2CartOf(BroadcastAdd(cart2sph(P), Permuted(BokehOffsets(P, n, aperture))))

\* normr of an (N,3) tensor: every row over its norm
NormRows(P) == Tup([k \in 1..Len(P) |-> normr(P[k])])

\* theta = PI/100, in units of pi
Theta == Frac(1, 100)

\* the rotation by theta about the X axis
TiltMatrix ==
    << <<Num(1), Num(0), Num(0)>>,
       <<Num(0), cos(Theta), RNeg(sin(Theta))>>,
       <<Num(0), sin(Theta), cos(Theta)>> >>

\* a variant of the tilt-and-scale that does not normalise the vertices
Tilted_raw(P, camera_distance) == Scaled(matmul(P, transpose(TiltMatrix)), camera_distance)

\* torch.mul(torch.mm(normr(P), torch.t(R)), camera_distance)
Tilted(P, camera_distance) ==
    Scaled(matmul(NormRows(P), transpose(TiltMatrix)), camera_distance)

\* polyhedron is what polyhedronFcn(device=device)[0:2] returns: the vertices P
\* and the topology T, one polygon per column
camera_from_polyhedron(polyhedron, camera_distance, to_spherical, device) ==
    [P |-> Returned(Tilted(polyhedron.P, camera_distance), to_spherical),
     E |-> poly2edge(polyhedron.T),
     dev |-> device]

(***************************************************************************)
(* The rig specification: the generators called, one after the other, on   *)
(* arguments drawn from the input sets.                                    *)
(***************************************************************************)
PolygonSizes == {2, 3, 4, 5}

Distances == {Num(1), Num(2), Frac(1, 2), Num(3)}

\* a generator is a function of its arguments: one call from the import state
RigCall == steps = 0 /\ steps' = 1

CameraN(n, camera_distance, to_spherical) ==
    /\ RigCall
    /\ ret' = Call("camera_n", Nothing,
                   [n |-> n, camera_distance |-> camera_distance,
                    to_spherical |-> to_spherical],
                   Ok(camera_n(n, camera_distance, to_spherical)), Nothing)
    /\ UNCHANGED <<ext, intr, cam, ctor, hook>>

\* the number n of positions bokeh_camera adds
BokehSizes == {1, 2, 4}

\* apertures in units of pi: PI/16, the default, and others
Apertures == {Frac(1, 16), Num(0), Frac(1, 4)}

\* (M,3) position tensors: single positions, and one of two rows
BokehPositions ==
    { << Vec(<<1, 0, 0>>) >>, << Vec(<<0, 2, 0>>) >>, << Vec(<<0, 0, -3>>) >>,
      << Vec(<<1, 2, 2>>) >>, << Vec(<<1, 0, 0>>), Vec(<<0, 2, 0>>) >> }

BokehCamera(P, n, aperture) ==
    /\ RigCall
    /\ ret' = Call("bokeh_camera", Nothing, [P |-> P, n |-> n, aperture |-> aperture],
                   bokeh_camera(P, n, aperture), Nothing)
    /\ UNCHANGED <<ext, intr, cam, ctor, hook>>

\* what the polyhedron constructors return: the octahedron, the octahedron of
\* circumradius 2, and a tetrahedron of circumradius 3
Polyhedra ==
    { [P |-> <<Vec(<<1, 0, 0>>), Vec(<<-1, 0, 0>>), Vec(<<0, 1, 0>>),
               Vec(<<0, -1, 0>>), Vec(<<0, 0, 1>>), Vec(<<0, 0, -1>>)>>,
       T |-> << <<0, 2, 1, 3, 0, 3, 1, 2>>,
                <<2, 1, 3, 0, 3, 1, 2, 0>>,
                <<4, 4, 4, 4, 5, 5, 5, 5>> >>],
      [P |-> <<Vec(<<2, 0, 0>>), Vec(<<-2, 0, 0>>), Vec(<<0, 2, 0>>),
               Vec(<<0, -2, 0>>), Vec(<<0, 0, 2>>), Vec(<<0, 0, -2>>)>>,
       T |-> << <<0, 2, 1, 3, 0, 3, 1, 2>>,
                <<2, 1, 3, 0, 3, 1, 2, 0>>,
                <<4, 4, 4, 4, 5, 5, 5, 5>> >>],
      [P |-> <<Vec(<<2, 1, 2>>), Vec(<<-2, -1, 2>>), Vec(<<-2, 1, -2>>), Vec(<<2, -1, -2>>)>>,
       T |-> << <<0, 0, 0, 1>>,
                <<1, 3, 2, 3>>,
                <<2, 1, 3, 2>> >>] }

CameraFromPolyhedron(polyhedron, camera_distance, to_spherical, device) ==
    /\ RigCall
    /\ ret' = Call("camera_from_polyhedron", Nothing,
                   [polyhedron |-> polyhedron, camera_distance |-> camera_distance,
                    to_spherical |-> to_spherical, device |-> device],
                   Ok(camera_from_polyhedron(polyhedron, camera_distance,
                                             to_spherical, device)), Nothing)
    /\ UNCHANGED <<ext, intr, cam, ctor, hook>>

InitRig == Init

NextRig ==
    \/ \E n \in PolygonSizes, d \in Distances, sph \in BOOLEAN : CameraN(n, d, sph)
    \/ \E P \in BokehPositions, n \in BokehSizes, a \in Apertures : BokehCamera(P, n, a)
    \/ \E ph \in Polyhedra, d \in Distances, sph \in BOOLEAN, dev \in Devices :
          CameraFromPolyhedron(ph, d, sph, dev)

SpecRig == InitRig /\ [][NextRig]_vars

\* C13: camera_n(n, distance) returns n positions, the vertices of the regular
\* n-gon of circumradius distance on the XY plane, and exactly n-1 edges, edge
\* i going from vertex i to vertex i+1, none from vertex n-1 to vertex 0; for
\* n=4 and distance=1 these are the 4 corners of the square and 3 edges.
C13_OpenChain ==
    ret.op = "camera_n"
    => (/\ ret.err = ""
        /\ Len(ret.val.P) = ret.args.n
        /\ ~ret.args.to_spherical
           => \A k \in 1..ret.args.n :
                 /\ dot(ret.val.P[k], ret.val.P[k])
                      = RMul(ret.args.camera_distance, ret.args.camera_distance)
                 /\ ret.val.P[k][3] = Num(0)
        /\ Len(ret.val.E) = 2
        /\ Len(ret.val.E[1]) = ret.args.n - 1
        /\ Len(ret.val.E[2]) = ret.args.n - 1
        /\ \A i \in 0..(ret.args.n - 2) :
              ret.val.E[1][i + 1] = i /\ ret.val.E[2][i + 1] = i + 1
        /\ ~\E e \in 1..Len(ret.val.E[1]) :
              ret.val.E[1][e] = ret.args.n - 1 /\ ret.val.E[2][e] = 0
        /\ (ret.args.n = 4 /\ ret.args.camera_distance = Num(1) /\ ~ret.args.to_spherical)
           => ret.val.P = <<Vec(<<1, 0, 0>>), Vec(<<0, 1, 0>>),
                            Vec(<<-1, 0, 0>>), Vec(<<0, -1, 0>>)>>)

\* C13 happens: camera_n(4, 1) has returned 4 positions and 3 edges
C13_Witness ==
    /\ ret.op = "camera_n" /\ ret.args.n = 4 /\ ret.args.camera_distance = Num(1)
    /\ ~ret.args.to_spherical
    /\ Len(ret.val.P) = 4
    /\ ret.val.E = <<<<0, 1, 2>>, <<1, 2, 3>>>>

\* C14: for a single position P, bokeh_camera(P, n, aperture) returns n+1 rows
\* and its first row is sph2cart(cart2sph(P)), the position with no offset, for
\* every n and every aperture; a position on a coordinate axis comes back as
\* it was given.
C14_BokehAnchor ==
    (ret.op = "bokeh_camera" /\ Len(ret.args.P) = 1)
    => (/\ ret.err = ""
        /\ Len(ret.val) = ret.args.n + 1
        /\ ret.val[1] = sph2cart(cart2sph(ret.args.P))[1]
        /\ ret.args.P[1] \in {Vec(<<1, 0, 0>>), Vec(<<0, 2, 0>>), Vec(<<0, 0, -3>>)}
           => ret.val[1] = ret.args.P[1])

\* C14 happens: bokeh_camera has returned five rows for the position (0,2,0),
\* n=4 and the aperture pi/16, the first of them (0,2,0) and the second not
C14_Witness ==
    /\ ret.op = "bokeh_camera" /\ ret.err = ""
    /\ ret.args.P = << Vec(<<0, 2, 0>>) >>
    /\ ret.args.n = 4 /\ ret.args.aperture = Frac(1, 16)
    /\ Len(ret.val) = 5
    /\ ret.val[1] = Vec(<<0, 2, 0>>)
    /\ ret.val[2] # ret.val[1]

(***************************************************************************)
(* HookLayer (src/layer/HookLayer.py).  The hook table is a Python dict,   *)
(* modelled as the sequence of its values in insertion order; the key of a *)
(* value is its name.  Layers are named by strings, None by NoLayer.       *)
(***************************************************************************)
MaxHooks == 3

NoLayer == "None"

\* DeferredHook(layer=h, name=name): bound as long as it is attached to a layer
DeferredHook(layer, name) == [name |-> name, layer |-> layer, bound |-> layer # NoLayer]

\* 'hook_{}'.format(n)
HookName(n) == "hook_" \o ToString(n)

\* key in table
HasKey(table, key) == \E k \in 1..Len(table) : table[k].name = key

KeyAt(table, key) == CHOOSE k \in 1..Len(table) : table[k].name = key

\* table[key] = value: an existing key keeps its place and gets the new value
SetItem(table, key, value) ==
    IF HasKey(table, key)
    THEN [table EXCEPT ![KeyAt(table, key)] = value]
    ELSE Append(table, value)

\* del table[key]
DelItem(table, key) == SelectSeq(table, LAMBDA h : h.name # key)

\* all([h.is_bound() for h in self.__hook.values()])
is_bound(table) == \A k \in 1..Len(table) : table[k].bound

islist(a) == a.islist

\* hook = layer; if not islist(hook): hook = [hook]
AsList(a) == IF islist(a) THEN a.value ELSE <<a.value>>

\* the loop of bind: each hook is named after the size of the table at that time
RECURSIVE BindEach(_, _)
BindEach(table, hs) ==
    IF hs = <<>>
    THEN table
    ELSE BindEach(SetItem(table, HookName(Len(table)),
                          DeferredHook(Head(hs), HookName(Len(table)))),
                  Tail(hs))

bind(table, layer) == BindEach(table, AsList(layer))

\* self.__hook = {}; self.bind(hook_layer)
HookLayer_init(hook_layer) == bind(<<>>, hook_layer)

\* list(range(len(self.__hook)))
Range(n) == Tup([k \in 1..n |-> k - 1])

\* the loop of unbind: the hook under 'hook_ii' is unbound and deleted; a
\* missing key raises KeyError and leaves the loop
RECURSIVE UnbindEach(_, _, _)
UnbindEach(table, is, done) ==
    IF is = <<>>
    THEN [hook |-> table, err |-> "", unbound |-> done]
    ELSE IF ~HasKey(table, HookName(Head(is)))
         THEN [hook |-> table, err |-> "KeyError", unbound |-> done]
         ELSE UnbindEach(DelItem(table, HookName(Head(is))), Tail(is),
                         Append(done, HookName(Head(is))))

\* i = list(range(len(self.__hook)))
UnbindAll(table) == Range(Len(table))

\* i is None, a list of indices or, as the docstring has it, an int, over which
\* the loop cannot iterate
unbind(table, i) ==
    IF i.kind = "int"
    THEN [hook |-> table, err |-> "TypeError", unbound |-> <<>>]
    ELSE UnbindEach(table, IF i.kind = "None" THEN UnbindAll(table) ELSE i.value, <<>>)

Single(layer) == [islist |-> FALSE, value |-> layer]
List(layers) == [islist |-> TRUE, value |-> layers]

BindArgs ==
    {Single(NoLayer), Single("conv1"), List(<<"conv1", "conv2">>), List(<<>>)}

UnbindArgs ==
    {[kind |-> "None", value |-> <<>>], [kind |-> "int", value |-> <<0>>]}
    \cup {[kind |-> "list", value |-> l] : l \in {<<0>>, <<1>>, <<2>>, <<0, 1>>}}

\* HookLayer(layer, hook_layer)
InitHook ==
    /\ ext = <<DefaultExtrinsic>>
    /\ intr = <<DefaultIntrinsic>>
    /\ cam = <<>>
    /\ ctor = <<>>
    /\ \E a \in BindArgs :
          /\ hook = HookLayer_init(a)
          /\ ret = Call("HookLayer.__init__", <<>>, [hook_layer |-> a],
                        Ok(NoTensor), Nothing)
    /\ steps = 0

Bind(layer) ==
    /\ Tick
    /\ Len(hook) + Len(AsList(layer)) <= MaxHooks
    /\ hook' = bind(hook, layer)
    /\ ret' = Call("HookLayer.bind", hook, [layer |-> layer], Ok(NoTensor), Nothing)
    /\ UNCHANGED <<ext, intr, cam, ctor>>

UnbindWith(i, r) ==
    /\ Tick
    /\ hook' = r.hook
    /\ ret' = Call("HookLayer.unbind", hook, [i |-> i],
                   IF r.err = "" THEN Ok(NoTensor) ELSE Raise(r.err), r.unbound)
    /\ UNCHANGED <<ext, intr, cam, ctor>>

Unbind(i) == UnbindWith(i, unbind(hook, i))

IsBound ==
    /\ Tick
    /\ ret' = Call("HookLayer.is_bound", hook, Nothing, Ok(is_bound(hook)), Nothing)
    /\ UNCHANGED <<ext, intr, cam, ctor, hook>>

NextHook ==
    \/ \E a \in BindArgs : Bind(a)
    \/ \E i \in UnbindArgs : Unbind(i)
    \/ IsBound

SpecHook == InitHook /\ [][NextHook]_vars

(***************************************************************************)
(* Adjacency matrices (src/ACME/topology/adjacency.py).  An optional size  *)
(* is <<>> for None and <<k>> for the integer k.                           *)
(***************************************************************************)
None == <<>>

Given(k) == <<k>>

RECURSIVE MaxOf(_)
MaxOf(row) ==
    IF Len(row) = 1 THEN row[1]
    ELSE IF Head(row) > MaxOf(Tail(row)) THEN Head(row) ELSE MaxOf(Tail(row))

\* E.max()
EdgeMax(E) == MaxOf(E[1] \o E[2])

\* torch.zeros(size,size)
Zeros(n) == Tup([i \in 1..n |-> Tup([j \in 1..n |-> Num(0)])])

\* A[i,j] += w, for indices from 0 that are not negative
Added(A, i, j, w) ==
    IF i >= Len(A) \/ j >= Len(A) THEN Raise("IndexError")
    ELSE Ok([A EXCEPT ![i + 1][j + 1] = RAdd(@, w)])

Shorter(a, b) == IF a < b THEN a ELSE b

\* zip(*tuple(torch.t(E)),W) for a (2,N) tensor E with N > 0: the N columns of
\* E, each of two entries, are zipped with W, so tuple k is row k of E followed
\* by W[k], and there are as many tuples as the shortest of them has entries
Zipped(E, W) == Tup([k \in 1..Shorter(Len(E), Len(W)) |-> Append(E[k], W[k])])

\* for i,j,w in ...: A[i,j] += w; a tuple that is not of three values cannot be
\* unpacked
RECURSIVE AdjacencyLoop(_, _, _)
AdjacencyLoop(r, Z, k) ==
    IF r.err # "" \/ k > Len(Z) THEN r
    ELSE IF Len(Z[k]) # 3 THEN Raise("ValueError")
    ELSE AdjacencyLoop(Added(r.val, Z[k][1], Z[k][2], Z[k][3]), Z, k + 1)

\* A = torch.zeros(size,size); for i,j,w in zip(*tuple(torch.t(E)),W): A[i,j] += w
AdjacencyOf(E, W, n) == AdjacencyLoop(Ok(Zeros(n)), Zipped(E, W), 1)

adjacency(E, W, size) ==
    AdjacencyOf(E, W, IF size = None THEN EdgeMax(E) + 1 ELSE size[1])

\* torch.ones(col(E))
Ones(n) == Tup([k \in 1..n |-> Num(1)])

edge2adj(E, size) == adjacency(E, Ones(Len(E[1])), size)

\* return edge2adj(poly2edge(T)[0],size=None)
poly2adj(T, size) == edge2adj(poly2edge(T), None)

\* the triangles over four vertices, alone or followed by the triangle (1, 2, 3),
\* and topologies of two-vertex polygons, which are edge tensors
Triangles ==
    {<< <<t[1]>>, <<t[2]>>, <<t[3]>> >> :
        t \in {u \in (0..3) \X (0..3) \X (0..3) : u[1] # u[2] /\ u[2] # u[3] /\ u[1] # u[3]}}
    \cup {<< <<a, 1>>, <<b, 2>>, <<0, 3>> >> : a \in 1..2, b \in 2..3}
    \cup {<< <<0, 1>>, <<1, 0>> >>, << <<0, 1>>, <<1, 2>> >>, << <<0, 1, 2>>, <<1, 2, 3>> >>}

EdgeTensors ==
    {<< <<0, 1>>, <<1, 0>> >>, << <<0, 2>>, <<1, 3>> >>, << <<0, 0>>, <<1, 1>> >>,
     << <<0, 0, 2>>, <<1, 1, 0>> >>, << <<3>>, <<3>> >>}

\* the weights of n edges: all 1, or 1, 1/2, 1/3, ...
Weights(n) == {Ones(n), Tup([k \in 1..n |-> Frac(1, k)])}

Sizes == {None, Given(2), Given(3), Given(4), Given(6)}

Adjacency(E, W, size) ==
    /\ RigCall
    /\ ret' = Call("adjacency", Nothing, [E |-> E, W |-> W, size |-> size],
                   adjacency(E, W, size), Nothing)
    /\ UNCHANGED <<ext, intr, cam, ctor, hook>>

Edge2Adj(E, size) ==
    /\ RigCall
    /\ ret' = Call("edge2adj", Nothing, [E |-> E, size |-> size], edge2adj(E, size), Nothing)
    /\ UNCHANGED <<ext, intr, cam, ctor, hook>>

Poly2Adj(T, size) ==
    /\ RigCall
    /\ ret' = Call("poly2adj", Nothing, [T |-> T, size |-> size], poly2adj(T, size), Nothing)
    /\ UNCHANGED <<ext, intr, cam, ctor, hook>>

InitTopology == Init

NextTopology ==
    \/ \E E \in EdgeTensors, size \in Sizes : \E W \in Weights(Len(E[1])) :
          Adjacency(E, W, size)
    \/ \E E \in EdgeTensors, size \in Sizes : Edge2Adj(E, size)
    \/ \E T \in Triangles, size \in Sizes : Poly2Adj(T, size)

SpecTopology == InitTopology /\ [][NextTopology]_vars

IsSquare(A, n) == Len(A) = n /\ \A i \in 1..Len(A) : Len(A[i]) = n

\* C18: poly2adj(T, size=k) returns a k x k adjacency matrix when size is
\* given, and a matrix of the automatically computed size, the largest vertex
\* index plus one, only when size is None.
C18_Poly2AdjSize ==
    ret.op = "poly2adj" =>
        /\ ret.err = ""
        /\ IF ret.args.size = None
           THEN IsSquare(ret.val, EdgeMax(poly2edge(ret.args.T)) + 1)
           ELSE IsSquare(ret.val, ret.args.size[1])

\* the side of polygon f of T that starts at its corner i
SideOf(T, i, f) == <<T[i][f], T[NextRow(T, i)][f]>>

Sides(T) == {SideOf(T, i, f) : i \in 1..Len(T), f \in 1..Len(T[1])}

EdgesOf(E) == {<<E[1][e], E[2][e]>> : e \in 1..Len(E[1])}

\* p is the unit vector u turned by Theta about the X axis and scaled by d
TiltedFrom(p, u, d) ==
    /\ p[1] = RMul(d, u[1])
    /\ RAdd(RMul(u[2], p[2]), RMul(u[3], p[3]))
         = RMul(RMul(d, cos(Theta)), RAdd(RMul(u[2], u[2]), RMul(u[3], u[3])))
    /\ RSub(RMul(u[2], p[3]), RMul(u[3], p[2]))
         = RMul(RMul(d, sin(Theta)), RAdd(RMul(u[2], u[2]), RMul(u[3], u[3])))

\* C15: camera_from_polyhedron returns one position per vertex of the
\* polyhedron, in vertex order, each the normalised vertex tilted about the X
\* axis and scaled so that its length is exactly camera_distance (the radius,
\* when spherical coordinates are returned); the edges are the sides of the
\* polyhedron's polygons, the same whether to_spherical is true or false.
C15_PolyhedronRig ==
    (ret.op = "camera_from_polyhedron" /\ ret.err = "") =>
        /\ Len(ret.val.P) = Len(ret.args.polyhedron.P)
        /\ \A k \in 1..Len(ret.val.P) :
              IF ret.args.to_spherical
              THEN ret.val.P[k][1] = ret.args.camera_distance
              ELSE /\ dot(ret.val.P[k], ret.val.P[k])
                        = RMul(ret.args.camera_distance, ret.args.camera_distance)
                   /\ TiltedFrom(ret.val.P[k], normr(ret.args.polyhedron.P[k]),
                                 ret.args.camera_distance)
        /\ EdgesOf(ret.val.E) = Sides(ret.args.polyhedron.T)
        /\ ret.val.E = camera_from_polyhedron(ret.args.polyhedron, ret.args.camera_distance,
                                              ~ret.args.to_spherical, ret.args.device).E

\* a polyhedron whose vertices are not unit vectors has been turned into a
\* cartesian rig of another radius
C15_Witness ==
    /\ ret.op = "camera_from_polyhedron"
    /\ ret.err = ""
    /\ ~ret.args.to_spherical
    /\ ret.args.camera_distance = Frac(1, 2)
    /\ dot(ret.args.polyhedron.P[1], ret.args.polyhedron.P[1]) = Num(9)
    /\ Len(ret.val.P) = 4
    /\ Len(ret.val.E[1]) = 12

\* the HookLayer is bound to another layer: one of its hooks is attached
BoundToSomeLayer(table) == \E k \in 1..Len(table) : table[k].bound

\* C16: is_bound() returns True only if the HookLayer is bound to another layer;
\* in particular it returns False when the hook table is empty, as it is after
\* unbind() has removed every hook.
C16_IsBoundAfterUnbind ==
    (ret.op = "HookLayer.is_bound" /\ ret.err = "") =>
        (ret.val => BoundToSomeLayer(hook))

\* C17: unbind() with i = None, from any state reached by bind(...) and
\* unbind([indices]) calls, completes without error, has unbound every hook
\* that was stored and leaves the hook table empty.
C17_UnbindAll ==
    (ret.op = "HookLayer.unbind" /\ ret.args.i.kind = "None") =>
        /\ ret.err = ""
        /\ hook = <<>>
        /\ \A k \in 1..Len(ret.self) :
              \E u \in 1..Len(ret.out) : ret.out[u] = ret.self[k].name

\* M has x, y, z as the rows of its top-left block, minus their products with
\* the position p as its last column, and the homogeneous last row
RowsOfBasis(M, x, y, z, p) ==
    /\ <<M[1][1], M[1][2], M[1][3]>> = x
    /\ <<M[2][1], M[2][2], M[2][3]>> = y
    /\ <<M[3][1], M[3][2], M[3][3]>> = z
    /\ <<M[1][4], M[2][4], M[3][4], M[4][4]>>
         = <<RNeg(dot(x, p)), RNeg(dot(y, p)), RNeg(dot(z, p)), Num(1)>>
    /\ M[4] = Vec(<<0, 0, 0, 1>>)

RowsOfXZ(M, x, z, p) == RowsOfBasis(M, x, cross(z, x), z, p)

RowsOfZ(M, up, z, p) == RowsOfXZ(M, normr(cross(up, z)), z, p)

RowsOfPose(M, pose) == RowsOfZ(M, pose[3], normr(VSub(pose[2], pose[1])), pose[1])

Parallel(a, b) == cross(a, b) = Vec(<<0, 0, 0>>)

\* C19: for every pose whose up_vector is not parallel to the direction,
\* view_matrix() returns the 4x4 matrix whose top-left block has
\* x = normalize(cross(up_vector, z)), y = cross(z, x) and
\* z = normalize(target - position) as its rows, whose last column is
\* (-dot(x,position), -dot(y,position), -dot(z,position), 1) and whose last row
\* is (0,0,0,1).
C19_ViewRows ==
    (/\ ret.op = "CameraExtrinsic.view_matrix"
     /\ ret.err = ""
     /\ ~Parallel(ext[ret.self[2]].up_vector.v,
                  VSub(ext[ret.self[2]].target.v, ext[ret.self[2]].position.v)))
    => RowsOfPose(ret.val.v, Pose(ext[ret.self[2]]))

\* the normalized device coordinates of the points P under the combined matrix pv
NdcOf(pv, P) == homo2cart(matmul(cart2homo(P), transpose(pv)))

\* the upper end of the range of each output coordinate: twice the scale s
RangeOf(size, pixels) ==
    IF pixels THEN <<Num(size[1] - 1), Num(size[2] - 1), Num(1)>>
    ELSE <<Num(1), Num(1), Num(1)>>

\* v is u * s + s for s = hi / 2, and lies in [0, hi] when u lies in [-1, 1]
RescaledTo(v, u, hi) ==
    /\ v = RAdd(RMul(u, RMul(Half, hi)), RMul(Half, hi))
    /\ (IsFinite(u) /\ RLeq(Num(-1), u) /\ RLeq(u, Num(1)))
          => (RLeq(Num(0), v) /\ RLeq(v, hi))
    /\ u = Num(-1) => v = Num(0)
    /\ u = Num(1) => v = hi

RescaledRows(out, ndc, hi) ==
    /\ Len(out) = Len(ndc)
    /\ \A n \in 1..Len(out) :
          /\ Len(out[n]) = 3
          /\ \A k \in 1..3 : RescaledTo(out[n][k], ndc[n][k], hi[k])

\* C20: project applies u' = u*s + s to the normalized device coordinates, with
\* s = 0.5 * (width - 1, height - 1, 1) when pixels is set, so that [-1, 1]
\* maps into [0, width - 1], [0, height - 1] and [0, 1], and with the scalar
\* s = 0.5 on all three coordinates otherwise; the output has one row of three
\* coordinates per input point.
C20_ProjectRescale ==
    (ret.op = "Camera.project" /\ ret.err = "") =>
        /\ Len(ret.val.v) = Len(ret.args.P.v)
        /\ RescaledRows(ret.val.v,
                        NdcOf(projection_view(Heap, ret.self[2]).val.v, ret.args.P.v),
                        RangeOf(intr[cam[ret.self[2]].intrinsic].image_size,
                                ret.args.pixels))

\* two points have been projected to pixels of a 256 x 128 image, the first
\* inside the image and off the origin
C20_Witness ==
    /\ ret.op = "Camera.project" /\ ret.err = ""
    /\ ret.args.pixels
    /\ intr[cam[ret.self[2]].intrinsic].image_size = <<256, 128>>
    /\ Len(ret.val.v) = 2
    /\ IsFinite(ret.val.v[1][1]) /\ IsFinite(ret.val.v[1][2])
    /\ RLeq(Num(1), ret.val.v[1][1]) /\ RLeq(ret.val.v[1][1], Num(255))
    /\ RLeq(Num(1), ret.val.v[1][2]) /\ RLeq(ret.val.v[1][2], Num(127))

\* the vectors that construction, look_at, look_from, to(...) and device
\* assignments write are placed on the device the extrinsic names
PlacedOnDevice(e) == e.position.dev = e.device /\ e.target.dev = e.device

\* C21: after any sequence of construction, look_at, look_from, to(...) and
\* device assignments, the vectors of every CameraExtrinsic are placed on the
\* device named by its device attribute, also when look_at or look_from was
\* given a vector placed on another device.  (up_vector is left out: it can
\* also be written by a plain assignment, which is none of these calls.)
C21_PlacementInvariant == \A e \in DOMAIN ext : PlacedOnDevice(ext[e])

\* the hook h is stored in the table, under its own key
Stored(table, h) == \E j \in 1..Len(table) : table[j] = h

DistinctKeys(table) ==
    \A j \in 1..Len(table) : \A k \in 1..Len(table) :
        table[j].name = table[k].name => j = k

\* C22: bind never replaces an existing hook: from any state reached by
\* bind(...) and unbind([indices]) calls, bind of k layers increases the number
\* of stored hooks by exactly k, every hook stored before is still stored under
\* its own key, and all keys are distinct.
C22_BindKeepsHooks ==
    (ret.op = "HookLayer.bind" /\ ret.err = "") =>
        /\ Len(hook) = Len(ret.self) + Len(AsList(ret.args.layer))
        /\ \A k \in 1..Len(ret.self) : Stored(hook, ret.self[k])
        /\ DistinctKeys(hook)

====
